---- MODULE Spec2Model ----
(***************************************************************************)
(* State-machine model of AppData/app.py: the process-wide registries      *)
(* pin_states, pwm_devices and input_monitors, the event queue, the        *)
(* input-monitor thread and the Flask command handlers.                    *)
(*                                                                         *)
(* In Spec every handler runs to completion as one step (commands executed *)
(* one at a time); the monitor thread advances one poll of one pin per     *)
(* step.  The GPIO library is the environment: every call into it may      *)
(* raise, and an input read returns either level.                          *)
(***************************************************************************)
EXTENDS Integers, Sequences, FiniteSets, TLC

\* ------------------------------------------------------------------ bounds
\* A pulse request carries loops in 0 .. MaxLoops.
MaxLoops == 1
\* A step that may publish is taken only while fewer than MaxQueue records
\* wait in event_queue (the queue itself has no capacity).
MaxQueue == 1
\* At most MaxFailures calls into the GPIO library raise in one run.
MaxFailures == 1
\* In SpecBus, where no subscriber takes records, log_event is called while
\* fewer than MaxBus records wait in event_queue.
MaxBus == 4
\* In SpecFeed at most MaxFeed records are logged.
MaxFeed == 2

\* --------------------------------------------------------------- constants
VALID_PINS == 2 .. 27

Backends == {"gpiozero", "RPi.GPIO", "mock"}

PWM_PINS == {12, 13, 18, 19}

\* The clients connected to /api/events in SpecFeed.
Subscribers == {"client1", "client2"}

\* The request threads of the threaded server in SpecThreads.
Threads == {"thread1", "thread2"}

\* The pins the requests address.  Pin 28 is outside VALID_PINS; pin 18 takes
\* every command; pin 17 is only configured, as the other pin.
TestPins == {17, 18}
ReqPins == TestPins \cup {28}
MainPins == (TestPins \cap PWM_PINS) \cup {28}

\* ------------------------------------------------------------------ floats
\* float(x): a finite number or NaN.  Every ordered comparison with NaN is
\* false, as in Python.
Float(v) == [nan |-> FALSE, val |-> v]
NaN == [nan |-> TRUE, val |-> 0]
FloatLess(a, b) == ~a.nan /\ ~b.nan /\ a.val < b.val
FloatGreater(a, b) == ~a.nan /\ ~b.nan /\ a.val > b.val

\* str.lower() on the strings the requests carry.
lower(s) ==
    CASE s = "OUTPUT" -> "output"
      [] s = "UP" -> "up"
      [] s = "LOW" -> "low"
      [] s = "STOP" -> "stop"
      [] OTHER -> s

\* dict helpers: d[k] = v, del d[k], d.get(k, default) on the request body.
Put(d, k, v) == [x \in DOMAIN d \cup {k} |-> IF x = k THEN v ELSE d[x]]
Del(d, k) == [x \in DOMAIN d \ {k} |-> d[x]]
EmptyDict == [x \in {} |-> 0]

\* The element of a one-element set.  The({e : x \in {v}}) is e for x = v, with
\* v worked out once: a call's result held in a local variable.
The(S) == CHOOSE x \in S : TRUE

\* ------------------------------------------------------------------ events
\* An event record: level and message; the message text is kept as its kind
\* and the pin it names (0 for a message that names no pin).
Event(level, msg, pin) == [level |-> level, msg |-> msg, pin |-> pin]

\* log_event: put_nowait on queue.Queue(), which has no maxsize and so never
\* raises queue.Full.
log_event(q, ev) == Append(q, ev)

\* A call into the GPIO library.
Call(name, pin) == [call |-> name, pin |-> pin]

\* hasattr(device, 'close'): the gpiozero devices have close(); RPi.GPIO's PWM
\* object has stop() only; None is falsy.
HasClose(device) == device \in {"OutputDevice", "InputDevice", "PWMOutputDevice"}

\* ------------------------------------------------------------- cleanup_pin
\* bad: the handles whose close() raises, as <<"pin", p>> or <<"pwm", p>>.
\* Result: the registries, the events logged and the library calls made.
cleanup_pin(ps, pd, pin, bad) ==
    LET hasPin == pin \in DOMAIN ps
        pinClose == hasPin /\ HasClose(ps[pin].device)
        pinRaise == pinClose /\ <<"pin", pin>> \in bad
        ps1 == IF hasPin /\ ~pinRaise THEN Del(ps, pin) ELSE ps
        hasPwm == ~pinRaise /\ pin \in DOMAIN pd
        pwmClose == hasPwm /\ HasClose(pd[pin].device)
        pwmRaise == pwmClose /\ <<"pwm", pin>> \in bad
        pd1 == IF hasPwm /\ ~pwmRaise THEN Del(pd, pin) ELSE pd
    IN  [ps |-> ps1,
         pd |-> pd1,
         log |-> IF pinRaise \/ pwmRaise
                 THEN <<Event("error", "cleanup_error", pin)>>
                 ELSE <<>>,
         calls |-> (IF pinClose /\ ~pinRaise THEN <<Call("close", pin)>> ELSE <<>>)
                   \o (IF pwmClose /\ ~pwmRaise THEN <<Call("pwm_close", pin)>> ELSE <<>>)]

\* The handles of pins in `pins` that have a close() to call.
CloseSites(ps, pd, pins) ==
    {<<"pin", p>> : p \in {q \in pins \cap DOMAIN ps : HasClose(ps[q].device)}}
    \cup {<<"pwm", p>> : p \in {q \in pins \cap DOMAIN pd : HasClose(pd[q].device)}}

\* ------------------------------------------------------------- cleanup_all
\* cleanup_pin over the pins of `order` one after the other.
RECURSIVE cleanup_each(_, _, _, _)
cleanup_each(ps, pd, order, bad) ==
    IF order = <<>>
    THEN [ps |-> ps, pd |-> pd, log |-> <<>>, calls |-> <<>>]
    ELSE The({The({[ps |-> r.ps, pd |-> r.pd, log |-> c.log \o r.log,
                    calls |-> c.calls \o r.calls] :
                   r \in {cleanup_each(c.ps, c.pd, Tail(order), bad)}}) :
              c \in {cleanup_pin(ps, pd, Head(order), bad)}})

\* The orders in which a dict's keys may be listed (insertion order, which the
\* registries' contents do not determine).
Orders(S) == {o \in [1 .. Cardinality(S) -> S] : \A i, j \in DOMAIN o : i # j => o[i] # o[j]}

\* The elements of sequence `order` that are in S, in order.
RECURSIVE Keys(_, _)
Keys(order, S) ==
    IF order = <<>> THEN <<>>
    ELSE (IF Head(order) \in S THEN <<Head(order)>> ELSE <<>>) \o Keys(Tail(order), S)

\* cleanup_all without its second loop: the PWM handles of pins that have no
\* PinState are left alone.
cleanup_all_first_loop(ps, pd, be, order1, order2, bad) ==
    The({[ps |-> a.ps,
          pd |-> a.pd,
          running |-> FALSE,
          log |-> a.log \o <<Event("info", "cleanup_done", 0)>>,
          calls |-> a.calls
                    \o (IF be = "RPi.GPIO" THEN <<Call("GPIO.cleanup", 0)>> ELSE <<>>)] :
         a \in {cleanup_each(ps, pd, Keys(order1, DOMAIN ps), bad)}})

\* cleanup_all: the first loop runs over list(pin_states.keys()), the second
\* over the keys pwm_devices has once the first loop is done.  order1 and
\* order2 give the order in which each dict lists its keys.
cleanup_all(ps, pd, be, order1, order2, bad) ==
    The({The({[ps |-> b.ps,
               pd |-> b.pd,
               running |-> FALSE,
               log |-> a.log \o b.log \o <<Event("info", "cleanup_done", 0)>>,
               calls |-> a.calls \o b.calls
                         \o (IF be = "RPi.GPIO" THEN <<Call("GPIO.cleanup", 0)>>
                             ELSE <<>>)] :
              b \in {cleanup_each(a.ps, a.pd, Keys(order2, DOMAIN a.pd), bad)}}) :
         a \in {cleanup_each(ps, pd, Keys(order1, DOMAIN ps), bad)}})

\* ---------------------------------------------------------------- responses
\* jsonify(...) and the status code.
Resp(status, body) == [status |-> status, body |-> body]

\* What the library does during one handler: the handles whose close() raises,
\* whether acquiring a device raises, and which of the handler's level or
\* PWM-setting calls raises (the fail-th one; 0: none).
Env(bad, acquire, fail) == [bad |-> bad, acquire |-> acquire, fail |-> fail]
NoFault == Env({}, FALSE, 0)

\* The calls that raise under env.
Faults(env) ==
    Cardinality(env.bad) + (IF env.acquire THEN 1 ELSE 0) + (IF env.fail > 0 THEN 1 ELSE 0)

\* A handler's result: the registries, the events logged, the library calls
\* made and the response.
Result(ps, pd, mon, log, calls, resp) ==
    [ps |-> ps, pd |-> pd, mon |-> mon, log |-> log, calls |-> calls, resp |-> resp]

\* ------------------------------------------------------------ set_pin_mode
\* The PinState a backend records for a configured pin.  The mock backend's
\* branch is never completed: MockGPIO has IN and OUT but neither INPUT nor
\* OUTPUT, so getattr(GPIO, mode.upper()) raises AttributeError.
\* NewPinState with the branch of the mock backend taken on every backend: the
\* pull of the request is recorded for an output too.
NewPinState_request_pull(be, mode, pull) ==
    [mode |-> mode, value |-> 0, pull |-> pull,
     device |-> IF be # "gpiozero" THEN "None"
                ELSE IF mode = "output" THEN "OutputDevice" ELSE "InputDevice"]

NewPinState(be, mode, pull) ==
    IF be = "gpiozero"
    THEN [mode |-> mode, value |-> 0,
          pull |-> IF mode = "output" THEN "off" ELSE pull,
          device |-> IF mode = "output" THEN "OutputDevice" ELSE "InputDevice"]
    ELSE IF be = "RPi.GPIO"
    THEN [mode |-> mode, value |-> 0,
          pull |-> IF mode = "output" THEN "off" ELSE pull,
          device |-> "None"]
    ELSE [mode |-> mode, value |-> 0, pull |-> pull, device |-> "None"]

\* set_pin_mode with cleanup_pin moved ahead of the mode check.
set_pin_mode_release_first(ps, pd, mon, be, data, env) ==
    LET pin == data.pin
        mode == lower(data.mode)
        pull == lower(data.pull)
        c == cleanup_pin(ps, pd, pin, env.bad)
        raises == be = "mock" \/ env.acquire
    IN  IF pin \notin VALID_PINS
        THEN Result(ps, pd, mon, <<>>, <<>>, Resp(400, "invalid_pin"))
        ELSE IF mode \notin {"input", "output"}
        THEN Result(c.ps, c.pd, mon, c.log, c.calls, Resp(400, "invalid_mode"))
        ELSE IF raises
        THEN Result(c.ps, c.pd, mon,
                    c.log \o <<Event("error", "configure_error", 0)>>,
                    c.calls, Resp(500, "error"))
        ELSE Result(Put(c.ps, pin, NewPinState(be, mode, pull)), c.pd, mon,
                    c.log \o <<Event("info", "configured", pin)>>,
                    c.calls \o <<Call(IF mode = "output" THEN "setup_output"
                                      ELSE "setup_input", pin)>>,
                    Resp(200, "success"))

set_pin_mode(ps, pd, mon, be, data, env) ==
    LET pin == data.pin
        mode == lower(data.mode)
        pull == lower(data.pull)
        c == cleanup_pin(ps, pd, pin, env.bad)
        raises == be = "mock" \/ env.acquire
    IN  IF pin \notin VALID_PINS
        THEN Result(ps, pd, mon, <<>>, <<>>, Resp(400, "invalid_pin"))
        ELSE IF mode \notin {"input", "output"}
        THEN Result(ps, pd, mon, <<>>, <<>>, Resp(400, "invalid_mode"))
        ELSE IF raises
        THEN Result(c.ps, c.pd, mon,
                    c.log \o <<Event("error", "configure_error", 0)>>,
                    c.calls, Resp(500, "error"))
        ELSE Result(Put(c.ps, pin, NewPinState(be, mode, pull)), c.pd, mon,
                    c.log \o <<Event("info", "configured", pin)>>,
                    c.calls \o <<Call(IF mode = "output" THEN "setup_output"
                                      ELSE "setup_input", pin)>>,
                    Resp(200, "success"))

\* --------------------------------------------------------------- write_pin
\* on()/off() (gpiozero) and GPIO.output (RPi.GPIO, mock) alternately, high
\* first: the first n calls of the pulse loop.
RECURSIVE PulseCalls(_, _)
PulseCalls(pin, n) ==
    IF n = 0 THEN <<>>
    ELSE PulseCalls(pin, n - 1) \o <<Call(IF n % 2 = 1 THEN "high" ELSE "low", pin)>>

\* write_pin testing only that the pin is configured, not its mode.
write_pin_any_mode(ps, pd, mon, be, data, env) ==
    LET pin == data.pin
        action == lower(data.action)
    IN  IF pin \notin DOMAIN ps
        THEN Result(ps, pd, mon, <<>>, <<>>, Resp(400, "not_output"))
        ELSE IF action \in {"high", "low"}
        THEN LET value == IF action = "high" THEN 1 ELSE 0
             IN  IF env.fail = 1
                 THEN Result(ps, pd, mon, <<Event("error", "write_error", 0)>>,
                             <<>>, Resp(500, "error"))
                 ELSE Result([ps EXCEPT ![pin].value = value], pd, mon,
                             <<Event("info", IF value = 1 THEN "set_high" ELSE "set_low", pin)>>,
                             <<Call(action, pin)>>, Resp(200, "success"))
        ELSE IF action = "pulse"
        THEN LET loops == data.loops
                 n == IF loops > 0 THEN 2 * loops ELSE 0
             IN  IF env.fail \in 1 .. n
                 THEN Result(ps, pd, mon, <<Event("error", "write_error", 0)>>,
                             PulseCalls(pin, env.fail - 1), Resp(500, "error"))
                 ELSE Result([ps EXCEPT ![pin].value = 0], pd, mon,
                             <<Event("info", "pulsed", pin)>>,
                             PulseCalls(pin, n), Resp(200, "success"))
        ELSE Result(ps, pd, mon, <<>>, <<>>, Resp(400, "invalid_action"))

\* write_pin with the pulse loop running over range(loops + 1).
write_pin_one_more_cycle(ps, pd, mon, be, data, env) ==
    LET pin == data.pin
        action == lower(data.action)
    IN  IF pin \notin DOMAIN ps \/ ps[pin].mode # "output"
        THEN Result(ps, pd, mon, <<>>, <<>>, Resp(400, "not_output"))
        ELSE IF action \in {"high", "low"}
        THEN LET value == IF action = "high" THEN 1 ELSE 0
             IN  IF env.fail = 1
                 THEN Result(ps, pd, mon, <<Event("error", "write_error", 0)>>,
                             <<>>, Resp(500, "error"))
                 ELSE Result([ps EXCEPT ![pin].value = value], pd, mon,
                             <<Event("info", IF value = 1 THEN "set_high" ELSE "set_low", pin)>>,
                             <<Call(action, pin)>>, Resp(200, "success"))
        ELSE IF action = "pulse"
        THEN LET loops == data.loops
                 n == IF loops + 1 > 0 THEN 2 * (loops + 1) ELSE 0
             IN  IF env.fail \in 1 .. n
                 THEN Result(ps, pd, mon, <<Event("error", "write_error", 0)>>,
                             PulseCalls(pin, env.fail - 1), Resp(500, "error"))
                 ELSE Result([ps EXCEPT ![pin].value = 0], pd, mon,
                             <<Event("info", "pulsed", pin)>>,
                             PulseCalls(pin, n), Resp(200, "success"))
        ELSE Result(ps, pd, mon, <<>>, <<>>, Resp(400, "invalid_action"))

\* env.fail: the level call that raises, counted from 1 (0: none does).
write_pin(ps, pd, mon, be, data, env) ==
    LET pin == data.pin
        action == lower(data.action)
    IN  IF pin \notin DOMAIN ps \/ ps[pin].mode # "output"
        THEN Result(ps, pd, mon, <<>>, <<>>, Resp(400, "not_output"))
        ELSE IF action \in {"high", "low"}
        THEN LET value == IF action = "high" THEN 1 ELSE 0
             IN  IF env.fail = 1
                 THEN Result(ps, pd, mon, <<Event("error", "write_error", 0)>>,
                             <<>>, Resp(500, "error"))
                 ELSE Result([ps EXCEPT ![pin].value = value], pd, mon,
                             <<Event("info", IF value = 1 THEN "set_high" ELSE "set_low", pin)>>,
                             <<Call(action, pin)>>, Resp(200, "success"))
        ELSE IF action = "pulse"
        THEN LET loops == data.loops
                 n == IF loops > 0 THEN 2 * loops ELSE 0
             IN  IF env.fail \in 1 .. n
                 THEN Result(ps, pd, mon, <<Event("error", "write_error", 0)>>,
                             PulseCalls(pin, env.fail - 1), Resp(500, "error"))
                 ELSE Result([ps EXCEPT ![pin].value = 0], pd, mon,
                             <<Event("info", "pulsed", pin)>>,
                             PulseCalls(pin, n), Resp(200, "success"))
        ELSE Result(ps, pd, mon, <<>>, <<>>, Resp(400, "invalid_action"))

\* -------------------------------------------------------------- control_pwm
\* float(data.get(key, default)).
GetFloat(data, key, default) == IF key \in data.keys THEN data[key] ELSE Float(default)

\* The PWM handle a backend creates.  On the mock backend GPIO.PWM returns an
\* object whose start/stop lambdas take no self, so pwm_device.start(duty)
\* raises TypeError and no handle is ever stored.
NewPwmDevice(be) == IF be = "gpiozero" THEN "PWMOutputDevice" ELSE "GPIO.PWM"

\* action == 'start'
pwm_start(ps, pd, mon, be, data, env) ==
    LET pin == data.pin
        frequency == GetFloat(data, "frequency", 1000)
        duty_cycle == GetFloat(data, "duty_cycle", 50)
        oldClose == pin \in DOMAIN pd /\ HasClose(pd[pin].device)
        c == cleanup_pin(ps, pd, pin, env.bad)
        oldCalls == IF oldClose THEN <<Call("pwm_close", pin)>> ELSE <<>>
        raises == be = "mock" \/ env.acquire
    IN  IF FloatLess(duty_cycle, Float(0)) \/ FloatGreater(duty_cycle, Float(100))
        THEN Result(ps, pd, mon, <<>>, <<>>, Resp(400, "duty_range"))
        ELSE IF oldClose /\ <<"pwm", pin>> \in env.bad
        THEN Result(ps, pd, mon, <<Event("error", "pwm_error", 0)>>, <<>>,
                    Resp(500, "error"))
        ELSE IF raises
        THEN Result(c.ps, c.pd, mon, c.log \o <<Event("error", "pwm_error", 0)>>,
                    oldCalls \o c.calls, Resp(500, "error"))
        ELSE Result(c.ps,
                    Put(c.pd, pin, [device |-> NewPwmDevice(be),
                                    frequency |-> frequency,
                                    duty_cycle |-> duty_cycle]),
                    mon,
                    c.log \o <<Event("info", "pwm_started", pin)>>,
                    oldCalls \o c.calls \o <<Call("pwm_start", pin)>>,
                    Resp(200, "success"))

\* action == 'stop': close() on gpiozero, stop() on the other backends.
pwm_stop(ps, pd, mon, be, data, env) ==
    LET pin == data.pin
        raises == IF be = "gpiozero" THEN <<"pwm", pin>> \in env.bad ELSE env.fail = 1
    IN  IF pin \notin DOMAIN pd
        THEN Result(ps, pd, mon, <<>>, <<>>, Resp(200, "success"))
        ELSE IF raises
        THEN Result(ps, pd, mon, <<Event("error", "pwm_error", 0)>>, <<>>,
                    Resp(500, "error"))
        ELSE Result(ps, Del(pd, pin), mon, <<Event("info", "pwm_stopped", pin)>>,
                    <<Call(IF be = "gpiozero" THEN "pwm_close" ELSE "pwm_stop", pin)>>,
                    Resp(200, "success"))

\* action == 'update': pwm_info is the stored dict itself, so each assignment
\* to it is a change of pwm_devices at once.  The library calls are the
\* frequency setter (gpiozero only) and then the duty setter (gpiozero,
\* RPi.GPIO); the env.fail-th of them raises.
pwm_update(ps, pd, mon, be, data, env) ==
    LET pin == data.pin
        hasF == "frequency" \in data.keys
        hasD == "duty_cycle" \in data.keys
        fCall == hasF /\ be = "gpiozero"
        fRaise == fCall /\ env.fail = 1
        pdF == IF hasF THEN [pd EXCEPT ![pin].frequency = data.frequency] ELSE pd
        fCalls == IF fCall /\ ~fRaise THEN <<Call("pwm_frequency", pin)>> ELSE <<>>
        dCall == be \in {"gpiozero", "RPi.GPIO"}
        dRaise == dCall /\ env.fail = (IF fCall THEN 2 ELSE 1)
        pdD == [pdF EXCEPT ![pin].duty_cycle = data.duty_cycle]
    IN  IF pin \notin DOMAIN pd
        THEN Result(ps, pd, mon, <<>>, <<>>, Resp(400, "pwm_not_active"))
        ELSE IF fRaise
        THEN Result(ps, pdF, mon, <<Event("error", "pwm_error", 0)>>, <<>>,
                    Resp(500, "error"))
        ELSE IF ~hasD
        THEN Result(ps, pdF, mon, <<>>, fCalls, Resp(200, "success"))
        ELSE IF FloatLess(data.duty_cycle, Float(0))
                \/ FloatGreater(data.duty_cycle, Float(100))
        THEN Result(ps, pdF, mon, <<>>, fCalls, Resp(400, "duty_range"))
        ELSE IF dRaise
        THEN Result(ps, pdD, mon, <<Event("error", "pwm_error", 0)>>, fCalls,
                    Resp(500, "error"))
        ELSE Result(ps, pdD, mon, <<Event("info", "pwm_updated", pin)>>,
                    fCalls \o (IF dCall THEN <<Call("pwm_duty", pin)>> ELSE <<>>),
                    Resp(200, "success"))

control_pwm(ps, pd, mon, be, data, env) ==
    LET action == lower(data.action)
    IN  IF data.pin \notin VALID_PINS
        THEN Result(ps, pd, mon, <<>>, <<>>, Resp(400, "invalid_pin"))
        ELSE IF action = "start" THEN pwm_start(ps, pd, mon, be, data, env)
        ELSE IF action = "stop" THEN pwm_stop(ps, pd, mon, be, data, env)
        ELSE IF action = "update" THEN pwm_update(ps, pd, mon, be, data, env)
        ELSE Result(ps, pd, mon, <<>>, <<>>, Resp(200, "success"))

\* ----------------------------------------------------------- toggle_monitor
toggle_monitor(ps, pd, mon, be, data, env) ==
    LET pin == data.pin
    IN  IF pin \notin DOMAIN ps \/ ps[pin].mode # "input"
        THEN Result(ps, pd, mon, <<>>, <<>>, Resp(400, "not_input"))
        ELSE IF data.enable
        THEN Result(ps, pd, mon \cup {pin}, <<Event("info", "monitor_started", pin)>>,
                    <<>>, Resp(200, "monitoring"))
        ELSE Result(ps, pd, mon \ {pin}, <<Event("info", "monitor_stopped", pin)>>,
                    <<>>, Resp(200, "not_monitoring"))

\* ----------------------------------------------------------- reset_all_pins
\* input_monitors.clear(), cleanup_all(), then the handler's own event.
\* cleanup_pin swallows what close() raises, so the handler's except is not
\* reached.
reset_all_pins(ps, pd, be, order1, order2, bad) ==
    The({[ps |-> c.ps, pd |-> c.pd, mon |-> {}, running |-> c.running,
          log |-> c.log \o <<Event("info", "reset_done", 0)>>,
          calls |-> c.calls, resp |-> Resp(200, "success")] :
         c \in {cleanup_all(ps, pd, be, order1, order2, bad)}})

\* ------------------------------------------------------ input_monitor_worker
\* One pass of the for-loop body for `pin`.  read is {} when read_pin_value
\* raises and {v} when it returns v.  previous is the thread's previous_states.
\* Result: previous_states, the events logged and the library calls made.
\* The loop body with previous_states.get(pin, 0) for the cached value.
poll_pin_default_low(ps, previous, pin, read) ==
    IF pin \notin DOMAIN ps \/ ps[pin].mode # "input"
    THEN [previous |-> previous, log |-> <<>>]
    ELSE IF read = {}
    THEN [previous |-> previous, log |-> <<Event("error", "monitor_error", pin)>>]
    ELSE LET current_value == CHOOSE v \in read : TRUE
             previous_value == IF pin \in DOMAIN previous THEN previous[pin] ELSE 0
         IN  IF current_value # previous_value
             THEN [previous |-> Put(previous, pin, current_value),
                   log |-> <<Event("input",
                                   IF current_value > previous_value THEN "rising"
                                   ELSE "falling", pin)>>]
             ELSE [previous |-> previous, log |-> <<>>]

poll_pin(ps, previous, pin, read) ==
    IF pin \notin DOMAIN ps \/ ps[pin].mode # "input"
    THEN [previous |-> previous, log |-> <<>>]
    ELSE IF read = {}
    THEN [previous |-> previous, log |-> <<Event("error", "monitor_error", pin)>>]
    ELSE LET current_value == CHOOSE v \in read : TRUE
             previous_value == IF pin \in DOMAIN previous THEN previous[pin]
                               ELSE current_value
         IN  IF current_value # previous_value
             THEN [previous |-> Put(previous, pin, current_value),
                   log |-> <<Event("input",
                                   IF current_value > previous_value THEN "rising"
                                   ELSE "falling", pin)>>]
             ELSE [previous |-> previous, log |-> <<>>]

\* ------------------------------------------------------------------ get_pins
\* The pins that are read for a snapshot: the configured inputs.
InputPins(ps) == {p \in DOMAIN ps : ps[p].mode = "input"}

\* pins_data of GET /api/pins.  reads gives, for each input pin, what
\* read_pin_value returns ({v}) or {} when it raises.  The 'pwm' key of an
\* entry is kept as a set: empty when the key is absent.
get_pins(ps, pd, reads) ==
    IF \E p \in InputPins(ps) : reads[p] = {}
    THEN [resp |-> Resp(500, "error"),
          log |-> <<Event("error", "status_error", 0)>>,
          pins |-> EmptyDict]
    ELSE [resp |-> Resp(200, "pins"),
          log |-> <<>>,
          pins |-> [pin \in VALID_PINS |->
                     IF pin \in DOMAIN ps
                     THEN [mode |-> ps[pin].mode,
                           value |-> IF ps[pin].mode = "input"
                                     THEN CHOOSE v \in reads[pin] : TRUE
                                     ELSE ps[pin].value,
                           pull |-> ps[pin].pull,
                           configured |-> TRUE,
                           pwm |-> IF pin \in DOMAIN pd
                                   THEN {[active |-> TRUE,
                                          frequency |-> pd[pin].frequency,
                                          duty_cycle |-> pd[pin].duty_cycle]}
                                   ELSE {}]
                     ELSE [mode |-> "unconfigured", value |-> 0, pull |-> "off",
                           configured |-> FALSE,
                           pwm |-> IF pin \in DOMAIN pd
                                   THEN {[active |-> TRUE,
                                          frequency |-> pd[pin].frequency,
                                          duty_cycle |-> pd[pin].duty_cycle]}
                                   ELSE {}]]]

\* What the reads of a snapshot may give.
SnapshotReads(ps) == [InputPins(ps) -> {{}, {0}, {1}}]

\* ----------------------------------------------------------------- requests
DutyInputs == {Float(0 - 1), Float(0), Float(100), Float(101), NaN}

ModeRequests ==
    [op : {"mode"}, pin : ReqPins, mode : {"input", "OUTPUT", "pwm"}, pull : {"UP"}]

WriteRequests ==
    [op : {"write"}, pin : MainPins, action : {"high", "LOW", "toggle"}]
    \cup [op : {"write"}, pin : MainPins, action : {"pulse"}, loops : 0 .. MaxLoops]

PwmRequests ==
    [op : {"pwm"}, pin : MainPins, action : {"start"}, keys : {{"duty_cycle"}},
     duty_cycle : DutyInputs]
    \cup [op : {"pwm"}, pin : MainPins, action : {"STOP", "pause"}, keys : {{}}]
    \cup [op : {"pwm"}, pin : MainPins, action : {"update"}, keys : {{"frequency"}},
          frequency : {Float(2000)}]
    \cup [op : {"pwm"}, pin : MainPins, action : {"update"}, keys : {{"duty_cycle"}},
          duty_cycle : {Float(0)}]
    \cup [op : {"pwm"}, pin : MainPins, action : {"update"},
          keys : {{"frequency", "duty_cycle"}},
          frequency : {Float(2000)}, duty_cycle : {Float(101), NaN}]

MonitorRequests == [op : {"monitor"}, pin : MainPins, enable : BOOLEAN]

ResetRequest == [op |-> "reset", pin |-> 0]
NoRequest == [op |-> "none", pin |-> 0]
\* The route a request came in by and the pin it names.
Route(data) == [op |-> data.op, pin |-> data.pin]
NoResponse == Resp(0, "none")
NoPoll == [pin |-> 0, read |-> {}, prev |-> {}, attempted |-> FALSE]

\* A request thread: the request it serves, where it is in the handler, the
\* response once it has returned, and get_pins' locals (pins_data so far and
\* the pins its loop has still to visit).
Thread(data, pc, resp, pins, todo) ==
    [data |-> data, pc |-> pc, resp |-> resp, pins |-> pins, todo |-> todo]
NoThread == Thread(NoRequest, "done", NoResponse, EmptyDict, <<>>)

\* -------------------------------------------------------------------- state
VARIABLES
    backend,          \* GPIO_BACKEND, fixed at import
    pin_states,       \* pin -> [mode, value, pull, device]
    pwm_devices,      \* pin -> [device, frequency, duty_cycle]
    input_monitors,   \* set of pins
    event_queue,      \* queue.Queue of event records
    monitor_running,  \* the monitor thread's run flag
    worker_pc,        \* the monitor thread: "while", "for" or "exited"
    worker_todo,      \* the pins of list(input_monitors) the for-loop has left
    previous_states,  \* the monitor thread's local dict
    phase,            \* "serving", "finally" (app.run returned) or "exited"
    failures,         \* library calls that have raised so far
    \* What the step just taken did (nothing, for a step of another kind):
    request,          \* the route and pin of the request, when a handler ran
    response,         \* its response
    published,        \* the events the step logged
    driver_calls,     \* the set-up, level, PWM and close calls the step completed
    poll,             \* the monitor thread's poll: pin, value read, value read
                      \* at the pin's poll before it
    last_read,        \* pin -> the value the monitor thread read last from it
                      \*        since the pin joined input_monitors ({}: none)
    drv_level,        \* pin -> the level the last on()/off()/GPIO.output call
                      \*        drove on the pin since it was set up
    \* Kept by SpecFeed only:
    feeds,            \* subscriber -> the records its event_stream generator got
    created,          \* the records logged since the subscribers connected
    \* Kept by SpecThreads only:
    threads,          \* handler thread -> its request, its position and its locals
    began             \* the registries when the two requests arrived

vars == <<backend, pin_states, pwm_devices, input_monitors, event_queue,
          monitor_running, worker_pc, worker_todo, previous_states, phase,
          failures, request, response, published, driver_calls, poll, last_read,
          drv_level, feeds, created, threads, began>>

feed_vars == <<feeds, created>>
thread_vars == <<threads, began>>

\* The variables the steps of Spec leave alone.
aside == <<feed_vars, thread_vars>>

worker_vars == <<worker_pc, worker_todo, previous_states>>

\* The step is no handler and no poll, logs nothing and calls nothing.
Quiet ==
    /\ request' = NoRequest
    /\ response' = NoResponse
    /\ published' = <<>>
    /\ driver_calls' = <<>>
    /\ poll' = NoPoll

\* log_event for each record of `log`, in order.
RECURSIVE log_events(_, _)
log_events(q, log) ==
    IF log = <<>> THEN q ELSE log_events(log_event(q, Head(log)), Tail(log))

\* init_app has run: the monitor thread is started and the start-up event
\* logged.
Init ==
    /\ backend \in Backends
    /\ pin_states = EmptyDict
    /\ pwm_devices = EmptyDict
    /\ input_monitors = {}
    /\ event_queue = log_event(<<>>, Event("info", "started", 0))
    /\ monitor_running = TRUE
    /\ worker_pc = "while"
    /\ worker_todo = {}
    /\ previous_states = EmptyDict
    /\ phase = "serving"
    /\ failures = 0
    /\ request = NoRequest
    /\ response = NoResponse
    /\ published = <<>>
    /\ driver_calls = <<>>
    /\ poll = NoPoll
    /\ last_read = [p \in TestPins |-> {}]
    /\ drv_level = EmptyDict
    /\ feeds = [s \in Subscribers |-> <<>>]
    /\ created = <<>>
    /\ threads = [t \in Threads |-> NoThread]
    /\ began = [ps |-> EmptyDict, pd |-> EmptyDict]

\* The levels last driven, after the library calls of `calls` in order: a
\* level call drives its pin; setting a pin up, starting PWM on it or closing
\* its device leaves no level driven through the pin's device, GPIO.cleanup
\* none through any.
RECURSIVE Driven(_, _)
Driven(levels, calls) ==
    IF calls = <<>> THEN levels
    ELSE The({Driven(IF c.call = "high" THEN Put(levels, c.pin, 1)
                     ELSE IF c.call = "low" THEN Put(levels, c.pin, 0)
                     ELSE IF c.call \in {"setup_output", "setup_input", "close",
                                         "pwm_start"}
                     THEN Del(levels, c.pin)
                     ELSE IF c.call = "GPIO.cleanup" THEN EmptyDict
                     ELSE levels,
                     Tail(calls)) :
              c \in {Head(calls)}})

\* A handler is entered while the app serves and (model bound) the queue has
\* room.
Serving == phase = "serving" /\ Len(event_queue) < MaxQueue

\* The library's behaviour env stays within the failure bound.
Injects(env) ==
    /\ failures + Faults(env) <= MaxFailures
    /\ failures' = failures + Faults(env)

\* The reads remembered for the pins that stay in input_monitors.
KeepReads(mon) ==
    [p \in TestPins |-> IF p \in mon /\ p \in input_monitors THEN last_read[p] ELSE {}]

\* The handler's result r becomes the state.
Serve(data, r) ==
    /\ pin_states' = r.ps
    /\ pwm_devices' = r.pd
    /\ input_monitors' = r.mon
    /\ event_queue' = log_events(event_queue, r.log)
    /\ request' = Route(data)
    /\ response' = r.resp
    /\ published' = r.log
    /\ driver_calls' = r.calls
    /\ drv_level' = Driven(drv_level, r.calls)
    /\ poll' = NoPoll
    /\ last_read' = KeepReads(r.mon)

\* The library behaviours that make a difference to each handler: what the
\* calls it gets to make may do.
CloseEnvs(pin, acquires) ==
    {Env(bad, acquire, 0) :
        bad \in SUBSET CloseSites(pin_states, pwm_devices, {pin}),
        acquire \in acquires}

ModeEnvs(data) ==
    IF data.pin \in VALID_PINS /\ lower(data.mode) \in {"input", "output"}
    THEN CloseEnvs(data.pin, IF backend = "mock" THEN {FALSE} ELSE BOOLEAN)
    ELSE {NoFault}

WriteEnvs(data) ==
    IF data.pin \in DOMAIN pin_states /\ pin_states[data.pin].mode = "output"
    THEN IF lower(data.action) \in {"high", "low"}
         THEN {Env({}, FALSE, k) : k \in 0 .. 1}
         ELSE IF lower(data.action) = "pulse"
         THEN {Env({}, FALSE, k) : k \in 0 .. 2 * data.loops}
         ELSE {NoFault}
    ELSE {NoFault}

PwmEnvs(data) ==
    LET action == lower(data.action)
        active == data.pin \in DOMAIN pwm_devices
    IN  IF data.pin \notin VALID_PINS THEN {NoFault}
        ELSE IF action = "start"
        THEN CloseEnvs(data.pin, IF backend = "mock" THEN {FALSE} ELSE BOOLEAN)
        ELSE IF action = "stop" /\ active
        THEN IF backend = "gpiozero" THEN CloseEnvs(data.pin, {FALSE})
             ELSE {Env({}, FALSE, k) : k \in 0 .. 1}
        ELSE IF action = "update" /\ active
        THEN {Env({}, FALSE, k) : k \in 0 .. 2}
        ELSE {NoFault}

\* GET /api/pins: the registries are read, not changed.
GetPins ==
    /\ Serving
    /\ \E reads \in SnapshotReads(pin_states) :
       \E r \in {get_pins(pin_states, pwm_devices, reads)} :
          /\ Injects(Env({}, FALSE, IF r.resp.status = 500 THEN 1 ELSE 0))
          /\ request' = [op |-> "pins", pin |-> 0]
          /\ response' = r.resp
          /\ published' = r.log
          /\ event_queue' = log_events(event_queue, r.log)
    /\ driver_calls' = <<>>
    /\ poll' = NoPoll
    /\ UNCHANGED <<backend, pin_states, pwm_devices, input_monitors, monitor_running,
                   worker_vars, phase, last_read, drv_level>>
    /\ UNCHANGED aside

\* POST /api/mode
Configure ==
    /\ Serving
    /\ \E data \in ModeRequests :
       \E env \in ModeEnvs(data) :
          /\ Injects(env)
          /\ \E r \in {set_pin_mode(pin_states, pwm_devices, input_monitors, backend,
                                  data, env)} :
                Serve(data, r)
    /\ UNCHANGED <<backend, monitor_running, worker_vars, phase>>
    /\ UNCHANGED aside

\* POST /api/write
Write ==
    /\ Serving
    /\ \E data \in WriteRequests :
       \E env \in WriteEnvs(data) :
          /\ Injects(env)
          /\ \E r \in {write_pin(pin_states, pwm_devices, input_monitors, backend,
                               data, env)} :
                Serve(data, r)
    /\ UNCHANGED <<backend, monitor_running, worker_vars, phase>>
    /\ UNCHANGED aside

\* POST /api/pwm
Pwm ==
    /\ Serving
    /\ \E data \in PwmRequests :
       \E env \in PwmEnvs(data) :
          /\ Injects(env)
          /\ \E r \in {control_pwm(pin_states, pwm_devices, input_monitors, backend,
                                 data, env)} :
                Serve(data, r)
    /\ UNCHANGED <<backend, monitor_running, worker_vars, phase>>
    /\ UNCHANGED aside

\* POST /api/monitor
Monitor ==
    /\ Serving
    /\ \E data \in MonitorRequests :
       \E r \in {toggle_monitor(pin_states, pwm_devices, input_monitors,
                                backend, data, NoFault)} :
          Serve(data, r)
    /\ UNCHANGED <<backend, monitor_running, worker_vars, phase, failures>>
    /\ UNCHANGED aside

\* POST /api/reset
Reset ==
    /\ Serving
    /\ \E order1 \in Orders(DOMAIN pin_states) :
       \E order2 \in Orders(DOMAIN pwm_devices) :
       \E bad \in SUBSET CloseSites(pin_states, pwm_devices, TestPins) :
          /\ Injects(Env(bad, FALSE, 0))
          /\ \E r \in {reset_all_pins(pin_states, pwm_devices, backend,
                                    order1, order2, bad)} :
                /\ Serve(ResetRequest, r)
                /\ monitor_running' = r.running
    /\ UNCHANGED <<backend, worker_vars, phase>>
    /\ UNCHANGED aside

\* The finally of __main__ and then the atexit hook: cleanup_all each.
Exit(from, to) ==
    /\ phase = from
    /\ Len(event_queue) < MaxQueue
    /\ \E order1 \in Orders(DOMAIN pin_states) :
       \E order2 \in Orders(DOMAIN pwm_devices) :
       \E bad \in SUBSET CloseSites(pin_states, pwm_devices, TestPins) :
          /\ Injects(Env(bad, FALSE, 0))
          /\ \E c \in {cleanup_all(pin_states, pwm_devices, backend,
                                 order1, order2, bad)} :
                /\ pin_states' = c.ps
                /\ pwm_devices' = c.pd
                /\ monitor_running' = c.running
                /\ event_queue' = log_events(event_queue, c.log)
                /\ published' = c.log
                /\ driver_calls' = c.calls
                /\ drv_level' = Driven(drv_level, c.calls)
    /\ phase' = to
    /\ request' = NoRequest
    /\ response' = NoResponse
    /\ poll' = NoPoll
    /\ UNCHANGED <<backend, input_monitors, worker_vars, last_read>>
    /\ UNCHANGED aside

Shutdown == Exit("serving", "finally")

AtExit == Exit("finally", "exited")

\* while monitor_running: the for-loop starts over list(input_monitors), or
\* the thread ends.  Over an empty list the thread sleeps and is back at the
\* test.
MonitorWhile ==
    /\ worker_pc = "while"
    /\ IF monitor_running
       THEN /\ worker_pc' = IF input_monitors = {} THEN "while" ELSE "for"
            /\ worker_todo' = input_monitors
       ELSE /\ worker_pc' = "exited"
            /\ worker_todo' = {}
    /\ Quiet
    /\ UNCHANGED <<backend, pin_states, pwm_devices, input_monitors, event_queue,
                   monitor_running, previous_states, phase, failures, last_read, drv_level>>
    /\ UNCHANGED aside

\* Whether the loop body reads the pin: it is in pin_states as an input.
Polled(pin) == pin \in DOMAIN pin_states /\ pin_states[pin].mode = "input"

\* What read_pin_value may do for a pin the loop body reads: raise ({}), or
\* return a level.
Reads(pin) == IF Polled(pin) THEN {{}, {0}, {1}} ELSE {{}}

\* The for-loop body for one pin of the list; after the last one the thread
\* sleeps and is back at the while test.
MonitorPoll ==
    /\ worker_pc = "for"
    /\ Len(event_queue) < MaxQueue
    /\ \E pin \in worker_todo :
       \E read \in Reads(pin) :
       \E r \in {poll_pin(pin_states, previous_states, pin, read)} :
          /\ Injects(Env({}, FALSE, IF Polled(pin) /\ read = {} THEN 1 ELSE 0))
          /\ worker_todo' = worker_todo \ {pin}
          /\ worker_pc' = IF worker_todo \ {pin} = {} THEN "while" ELSE "for"
          /\ previous_states' = r.previous
          /\ event_queue' = log_events(event_queue, r.log)
          /\ published' = r.log
          /\ poll' = [pin |-> pin, read |-> read, prev |-> last_read[pin],
                      attempted |-> Polled(pin)]
          /\ last_read' = IF Polled(pin) /\ read # {}
                          THEN [last_read EXCEPT ![pin] = read]
                          ELSE last_read
    /\ request' = NoRequest
    /\ response' = NoResponse
    /\ driver_calls' = <<>>
    /\ UNCHANGED <<backend, pin_states, pwm_devices, input_monitors, monitor_running,
                   phase, drv_level>>
    /\ UNCHANGED aside

\* event_stream: a subscriber's event_queue.get() takes the oldest record.
Consume ==
    /\ event_queue # <<>>
    /\ event_queue' = Tail(event_queue)
    /\ Quiet
    /\ UNCHANGED <<backend, pin_states, pwm_devices, input_monitors, monitor_running,
                   worker_vars, phase, failures, last_read, drv_level>>
    /\ UNCHANGED aside

Next ==
    \/ GetPins
    \/ Configure
    \/ Write
    \/ Pwm
    \/ Monitor
    \/ Reset
    \/ Shutdown
    \/ AtExit
    \/ MonitorWhile
    \/ MonitorPoll
    \/ Consume

Spec == Init /\ [][Next]_vars

\* ------------------------------------------------- the queue with no reader
\* Records the handlers and the monitor thread log.
BusEvents ==
    {Event("info", "configured", 18), Event("info", "set_high", 18),
     Event("error", "write_error", 0), Event("input", "rising", 18),
     Event("info", "cleanup_done", 0)}

\* Some caller logs a record while no event_stream generator is running.
Publish ==
    /\ Len(event_queue) < MaxBus
    /\ \E ev \in BusEvents :
          /\ event_queue' = log_event(event_queue, ev)
          /\ published' = <<ev>>
    /\ UNCHANGED <<backend, pin_states, pwm_devices, input_monitors, monitor_running,
                   worker_vars, phase, failures, request, response, driver_calls,
                   poll, last_read, drv_level>>
    /\ UNCHANGED aside

\* log_event with no subscriber connected.
SpecBus == Init /\ [][Publish]_vars

\* ------------------------------------------------------ two event streams
\* The start-up record has been taken (Init, then Consume) and the clients of
\* Subscribers have connected: each runs generate() of event_stream.
InitFeed ==
    /\ backend \in Backends
    /\ pin_states = EmptyDict
    /\ pwm_devices = EmptyDict
    /\ input_monitors = {}
    /\ event_queue = <<>>
    /\ monitor_running = TRUE
    /\ worker_pc = "while"
    /\ worker_todo = {}
    /\ previous_states = EmptyDict
    /\ phase = "serving"
    /\ failures = 0
    /\ request = NoRequest
    /\ response = NoResponse
    /\ published = <<>>
    /\ driver_calls = <<>>
    /\ poll = NoPoll
    /\ last_read = [p \in TestPins |-> {}]
    /\ drv_level = EmptyDict
    /\ feeds = [s \in Subscribers |-> <<>>]
    /\ created = <<>>
    /\ threads = [t \in Threads |-> NoThread]
    /\ began = [ps |-> EmptyDict, pd |-> EmptyDict]

\* Some caller logs a record.
Produce ==
    /\ Len(created) < MaxFeed
    /\ \E ev \in BusEvents :
          /\ event_queue' = log_event(event_queue, ev)
          /\ created' = Append(created, ev)
          /\ published' = <<ev>>
    /\ UNCHANGED <<backend, pin_states, pwm_devices, input_monitors, monitor_running,
                   worker_vars, phase, failures, request, response, driver_calls,
                   poll, last_read, drv_level, feeds, thread_vars>>

\* generate() of one client: event_queue.get() returns the oldest record and
\* the client is sent it.
Get(s) ==
    /\ event_queue # <<>>
    /\ feeds' = [feeds EXCEPT ![s] = Append(@, Head(event_queue))]
    /\ event_queue' = Tail(event_queue)
    /\ UNCHANGED <<backend, pin_states, pwm_devices, input_monitors, monitor_running,
                   worker_vars, phase, failures, request, response, published,
                   driver_calls, poll, last_read, drv_level, created, thread_vars>>

Stream == \E s \in Subscribers : Get(s)

NextFeed ==
    \/ Produce
    \/ Stream

SpecFeed == InitFeed /\ [][NextFeed]_vars

\* --------------------------------------------------- two request threads
\* app.run(..., threaded=True): each request runs its handler in a thread of
\* its own and nothing locks the registries.  A step of a thread is one read
\* or write of pin_states or pwm_devices, with the driver calls and the
\* logging that follow it up to the next one.

\* The requests the two threads serve: POST /api/mode and POST /api/pwm
\* (start) for pin 18, and GET /api/pins.
ThreadModeRequests == {d \in ModeRequests : d.pin = 18}
ThreadPwmRequests ==
    {d \in PwmRequests : d.pin = 18 /\ d.action = "start"
                         /\ d.duty_cycle \in {Float(100), Float(101)}}
PinsRequest == [op |-> "pins", pin |-> 0]

\* The handler of a request run alone, without a fault of the driver.
Alone(ps, pd, mon, be, data) ==
    IF data.op = "mode" THEN set_pin_mode(ps, pd, mon, be, data, NoFault)
    ELSE IF data.op = "pwm" THEN control_pwm(ps, pd, mon, be, data, NoFault)
    ELSE Result(ps, pd, mon, <<>>, <<>>, Resp(200, "pins"))

\* The registries the requests may find: those of a fresh process and those
\* one earlier request has left.
Earlier(be) ==
    {[ps |-> r.ps, pd |-> r.pd] :
       r \in {Alone(EmptyDict, EmptyDict, {}, be, d) :
                d \in {PinsRequest} \cup ThreadModeRequests \cup ThreadPwmRequests}}

\* The start-up record has been taken and two requests have arrived.
InitThreads ==
    /\ backend \in Backends
    /\ began \in Earlier(backend)
    /\ pin_states = began.ps
    /\ pwm_devices = began.pd
    /\ input_monitors = {}
    /\ event_queue = <<>>
    /\ monitor_running = TRUE
    /\ worker_pc = "while"
    /\ worker_todo = {}
    /\ previous_states = EmptyDict
    /\ phase = "serving"
    /\ failures = 0
    /\ request = NoRequest
    /\ response = NoResponse
    /\ published = <<>>
    /\ driver_calls = <<>>
    /\ poll = NoPoll
    /\ last_read = [p \in TestPins |-> {}]
    /\ drv_level = EmptyDict
    /\ feeds = [s \in Subscribers |-> <<>>]
    /\ created = <<>>
    /\ \E d1 \in ThreadModeRequests :
       \E d2 \in ThreadPwmRequests \cup {PinsRequest} :
          threads = [t \in Threads |->
                       Thread(IF t = "thread1" THEN d1 ELSE d2, "begin", NoResponse,
                              EmptyDict, <<>>)]

\* Thread t moves to pc having set the registries to ps and pd, logged `log`
\* and made the driver calls `calls`.
Step(t, next, ps, pd, log, calls) ==
    /\ threads' = [threads EXCEPT ![t] = next]
    /\ pin_states' = ps
    /\ pwm_devices' = pd
    /\ event_queue' = log_events(event_queue, log)
    /\ published' = log
    /\ driver_calls' = calls
    /\ drv_level' = Driven(drv_level, calls)
    /\ UNCHANGED <<backend, input_monitors, monitor_running, worker_vars, phase,
                   failures, request, response, poll, last_read, began, feed_vars>>

\* Thread t goes on at pc / returns resp, the registries untouched.
Goto(t, pc) == Step(t, [threads[t] EXCEPT !.pc = pc], pin_states, pwm_devices, <<>>, <<>>)
Return(t, resp, log) ==
    Step(t, [threads[t] EXCEPT !.pc = "done", !.resp = resp], pin_states, pwm_devices,
         log, <<>>)

\* The except clause of the handler thread t runs.
Except(t) ==
    IF threads[t].data.op = "mode"
    THEN Return(t, Resp(500, "error"), <<Event("error", "configure_error", 0)>>)
    ELSE IF threads[t].data.op = "pwm"
    THEN Return(t, Resp(500, "error"), <<Event("error", "pwm_error", 0)>>)
    ELSE Return(t, Resp(500, "error"), <<Event("error", "status_error", 0)>>)

\* The handler up to its first access to a registry: the checks of the
\* request.
Begin(t) ==
    /\ threads[t].pc = "begin"
    /\ \E data \in {threads[t].data} :
          IF data.op = "mode"
          THEN IF data.pin \notin VALID_PINS
               THEN Return(t, Resp(400, "invalid_pin"), <<>>)
               ELSE IF lower(data.mode) \notin {"input", "output"}
               THEN Return(t, Resp(400, "invalid_mode"), <<>>)
               ELSE Goto(t, "clean_pin_in")
          ELSE IF data.op = "pwm"
          THEN IF data.pin \notin VALID_PINS
               THEN Return(t, Resp(400, "invalid_pin"), <<>>)
               ELSE IF \/ FloatLess(GetFloat(data, "duty_cycle", 50), Float(0))
                       \/ FloatGreater(GetFloat(data, "duty_cycle", 50), Float(100))
               THEN Return(t, Resp(400, "duty_range"), <<>>)
               ELSE Goto(t, "pwm_in")
          ELSE Step(t, [threads[t] EXCEPT !.pc = "snap_in", !.todo = <<17, 18>>],
                    pin_states, pwm_devices, <<>>, <<>>)

\* control_pwm: `if pin in pwm_devices`
PwmIn(t) ==
    /\ threads[t].pc = "pwm_in"
    /\ IF threads[t].data.pin \in DOMAIN pwm_devices
       THEN Goto(t, "pwm_old")
       ELSE Goto(t, "clean_pin_in")

\* control_pwm: `old_device = pwm_devices[pin]['device']` and its close()
PwmOld(t) ==
    /\ threads[t].pc = "pwm_old"
    /\ \E pin \in {threads[t].data.pin} :
          IF pin \notin DOMAIN pwm_devices
          THEN Except(t)
          ELSE Step(t, [threads[t] EXCEPT !.pc = "clean_pin_in"], pin_states, pwm_devices,
                    <<>>,
                    IF HasClose(pwm_devices[pin].device)
                    THEN <<Call("pwm_close", pin)>> ELSE <<>>)

\* cleanup_pin: `if pin in pin_states`
CleanPinIn(t) ==
    /\ threads[t].pc = "clean_pin_in"
    /\ IF threads[t].data.pin \in DOMAIN pin_states
       THEN Goto(t, "clean_pin_get")
       ELSE Goto(t, "clean_pwm_in")

\* cleanup_pin's except clause: the error is logged and the handler goes on.
CleanExcept(t) ==
    Step(t, [threads[t] EXCEPT !.pc = "store"], pin_states, pwm_devices,
         <<Event("error", "cleanup_error", threads[t].data.pin)>>, <<>>)

\* cleanup_pin: `device = pin_states[pin].get('device')` and its close()
CleanPinGet(t) ==
    /\ threads[t].pc = "clean_pin_get"
    /\ \E pin \in {threads[t].data.pin} :
          IF pin \notin DOMAIN pin_states
          THEN CleanExcept(t)
          ELSE Step(t, [threads[t] EXCEPT !.pc = "clean_pin_del"], pin_states,
                    pwm_devices, <<>>,
                    IF HasClose(pin_states[pin].device)
                    THEN <<Call("close", pin)>> ELSE <<>>)

\* cleanup_pin: `del pin_states[pin]`
CleanPinDel(t) ==
    /\ threads[t].pc = "clean_pin_del"
    /\ \E pin \in {threads[t].data.pin} :
          IF pin \notin DOMAIN pin_states
          THEN CleanExcept(t)
          ELSE Step(t, [threads[t] EXCEPT !.pc = "clean_pwm_in"], Del(pin_states, pin),
                    pwm_devices, <<>>, <<>>)

\* cleanup_pin: `if pin in pwm_devices`
CleanPwmIn(t) ==
    /\ threads[t].pc = "clean_pwm_in"
    /\ IF threads[t].data.pin \in DOMAIN pwm_devices
       THEN Goto(t, "clean_pwm_get")
       ELSE Goto(t, "store")

\* cleanup_pin: `pwm_device = pwm_devices[pin].get('device')` and its close()
CleanPwmGet(t) ==
    /\ threads[t].pc = "clean_pwm_get"
    /\ \E pin \in {threads[t].data.pin} :
          IF pin \notin DOMAIN pwm_devices
          THEN CleanExcept(t)
          ELSE Step(t, [threads[t] EXCEPT !.pc = "clean_pwm_del"], pin_states,
                    pwm_devices, <<>>,
                    IF HasClose(pwm_devices[pin].device)
                    THEN <<Call("pwm_close", pin)>> ELSE <<>>)

\* cleanup_pin: `del pwm_devices[pin]`
CleanPwmDel(t) ==
    /\ threads[t].pc = "clean_pwm_del"
    /\ \E pin \in {threads[t].data.pin} :
          IF pin \notin DOMAIN pwm_devices
          THEN CleanExcept(t)
          ELSE Step(t, [threads[t] EXCEPT !.pc = "store"], pin_states,
                    Del(pwm_devices, pin), <<>>, <<>>)

\* The handler after cleanup_pin: the handle is made (on the mock backend
\* that raises), the entry is stored, the event logged and success returned.
Store(t) ==
    /\ threads[t].pc = "store"
    /\ \E data \in {threads[t].data} :
          IF backend = "mock"
          THEN Except(t)
          ELSE IF data.op = "mode"
          THEN Step(t, [threads[t] EXCEPT !.pc = "done", !.resp = Resp(200, "success")],
                    Put(pin_states, data.pin,
                        NewPinState(backend, lower(data.mode), lower(data.pull))),
                    pwm_devices,
                    <<Event("info", "configured", data.pin)>>,
                    <<Call(IF lower(data.mode) = "output" THEN "setup_output"
                           ELSE "setup_input", data.pin)>>)
          ELSE Step(t, [threads[t] EXCEPT !.pc = "done", !.resp = Resp(200, "success")],
                    pin_states,
                    Put(pwm_devices, data.pin,
                        [device |-> NewPwmDevice(backend),
                         frequency |-> GetFloat(data, "frequency", 1000),
                         duty_cycle |-> GetFloat(data, "duty_cycle", 50)]),
                    <<Event("info", "pwm_started", data.pin)>>,
                    <<Call("pwm_start", data.pin)>>)

\* The entry of pins_data for a pin that has no PinState, and for one that has
\* PinState `state` and reads `value`.
Unconfigured ==
    [mode |-> "unconfigured", value |-> 0, pull |-> "off", configured |-> FALSE,
     pwm |-> {}]
Configured(state, value) ==
    [mode |-> state.mode, value |-> value, pull |-> state.pull, configured |-> TRUE,
     pwm |-> {}]

\* get_pins goes on to the next pin of its loop, or to the PWM loop.
SnapNext(t, pins) ==
    Step(t, [threads[t] EXCEPT !.pins = pins, !.todo = Tail(@),
                               !.pc = IF Tail(threads[t].todo) = <<>>
                                      THEN "snap_pwm" ELSE "snap_in"],
         pin_states, pwm_devices, <<>>, <<>>)

\* get_pins: `if pin in pin_states`
SnapIn(t) ==
    /\ threads[t].pc = "snap_in"
    /\ IF Head(threads[t].todo) \in DOMAIN pin_states
       THEN Goto(t, "snap_get")
       ELSE SnapNext(t, Put(threads[t].pins, Head(threads[t].todo), Unconfigured))

\* get_pins: `state = pin_states[pin]` and the entry made of it; the value of
\* an input pin is what read_pin_value returns.
SnapGet(t) ==
    /\ threads[t].pc = "snap_get"
    /\ \E pin \in {Head(threads[t].todo)} :
          IF pin \notin DOMAIN pin_states
          THEN Except(t)
          ELSE \E value \in IF pin_states[pin].mode = "input"
                            THEN {0, 1} ELSE {pin_states[pin].value} :
                  SnapNext(t, Put(threads[t].pins, pin,
                                  Configured(pin_states[pin], value)))

\* get_pins: the loop over pwm_devices.items() and the response.  The pins
\* the model never configures are reported unconfigured.
SnapPwm(t) ==
    /\ threads[t].pc = "snap_pwm"
    /\ \E pins \in {[pin \in VALID_PINS |->
                      IF pin \in DOMAIN threads[t].pins
                      THEN [threads[t].pins[pin] EXCEPT
                              !.pwm = IF pin \in DOMAIN pwm_devices
                                      THEN {[active |-> TRUE,
                                             frequency |-> pwm_devices[pin].frequency,
                                             duty_cycle |-> pwm_devices[pin].duty_cycle]}
                                      ELSE {}]
                      ELSE Unconfigured]} :
          Step(t, [threads[t] EXCEPT !.pc = "done", !.resp = Resp(200, "pins"),
                                     !.pins = pins],
               pin_states, pwm_devices, <<>>, <<>>)

Cleanup(t) ==
    \/ CleanPinIn(t)
    \/ CleanPinGet(t)
    \/ CleanPinDel(t)
    \/ CleanPwmIn(t)
    \/ CleanPwmGet(t)
    \/ CleanPwmDel(t)

Snapshot(t) ==
    \/ SnapIn(t)
    \/ SnapGet(t)
    \/ SnapPwm(t)

NextThreads ==
    \E t \in Threads :
       \/ Begin(t)
       \/ PwmIn(t)
       \/ PwmOld(t)
       \/ Cleanup(t)
       \/ Store(t)
       \/ Snapshot(t)

SpecThreads == InitThreads /\ [][NextThreads]_vars

\* =================================================================== claims
\* The level a read gave.
Level(read) == CHOOSE v \in read : TRUE

\* The events of a log that have the given level.
EventsOf(log, level) == {i \in DOMAIN log : log[i].level = level}

\* C1: with the handlers run one at a time, no pin ever has both a PinState
\* (pin_states) and a PwmState (pwm_devices).
C1_MutualExclusion ==
    \A p \in VALID_PINS : ~(p \in DOMAIN pin_states /\ p \in DOMAIN pwm_devices)

\* C2: every pin of input_monitors has a PinState whose mode is input, also
\* after a monitored pin is configured again or taken over by PWM.
C2_MonitorsAreInputs ==
    \A p \in input_monitors : p \in DOMAIN pin_states /\ pin_states[p].mode = "input"

\* C3: when the monitor thread, running, polls a monitored input pin and reads
\* a level other than at the pin's poll before, it logs exactly one event of
\* level input for the pin: rising if the level went up, falling otherwise.
C3_EdgeLogged ==
    (/\ poll.attempted
     /\ poll.pin \in input_monitors
     /\ monitor_running
     /\ poll.read # {}
     /\ poll.prev # {}
     /\ poll.read # poll.prev)
    => published = <<Event("input",
                           IF Level(poll.read) > Level(poll.prev) THEN "rising"
                           ELSE "falling",
                           poll.pin)>>

\* C4: an event of level input is logged only by a poll that read a level
\* other than the one read at the same pin's poll before; the first poll of a
\* pin since it joined input_monitors, and a poll reading the level of the
\* poll before, log none.
C4_NoSpuriousEdge ==
    \A i \in EventsOf(published, "input") :
        /\ poll.attempted
        /\ published[i].pin = poll.pin
        /\ poll.read # {}
        /\ poll.prev # {}
        /\ poll.read # poll.prev
        /\ published[i].msg = IF Level(poll.read) > Level(poll.prev) THEN "rising"
                              ELSE "falling"

\* The first poll of a pin since it joined input_monitors has read a high
\* level.
C4_FirstPollHigh ==
    /\ poll.attempted
    /\ poll.prev = {}
    /\ poll.read = {1}
    /\ poll.pin \in input_monitors

\* C5: while the process is not shutting down the monitor thread keeps
\* running: no request makes it stop.
C5_MonitorStaysRunning ==
    phase = "serving" => (monitor_running /\ worker_pc # "exited")

\* The snapshot get_pins gives reports every valid pin as unconfigured, with no
\* pwm entry.
AllUnconfigured ==
    \A reads \in SnapshotReads(pin_states) :
        LET s == get_pins(pin_states, pwm_devices, reads)
        IN  /\ s.resp.status = 200
            /\ \A p \in VALID_PINS :
                  /\ s.pins[p].mode = "unconfigured"
                  /\ ~s.pins[p].configured
                  /\ s.pins[p].pwm = {}

C7_RejectedUnchanged ==
    [][response'.status = 400
       => /\ pin_states' = pin_states
          /\ pwm_devices' = pwm_devices
          /\ input_monitors' = input_monitors
          /\ driver_calls' = <<>>]_vars

\* The configure requests C8 is about: pins in and out of VALID_PINS, modes in
\* and out of the vocabulary, any pull.
ConfigureInputs ==
    [op : {"mode"}, pin : TestPins \cup {1, 28}, mode : {"input", "OUTPUT", "pwm"},
     pull : {"UP", "down"}]

\* C8: configure of a pin outside VALID_PINS is answered 400 invalid pin for
\* every mode and pull, and configure of a valid pin with a mode other than
\* input and output is answered 400; either leaves pin_states, pwm_devices
\* and input_monitors as they were and releases nothing.
C8_InvalidConfigureRejected ==
    \A data \in ConfigureInputs :
    \A env \in ModeEnvs(data) :
        LET r == set_pin_mode(pin_states, pwm_devices, input_monitors, backend, data, env)
            unchanged == /\ r.ps = pin_states
                         /\ r.pd = pwm_devices
                         /\ r.mon = input_monitors
                         /\ r.calls = <<>>
        IN  /\ data.pin \notin VALID_PINS
                => (r.resp = Resp(400, "invalid_pin") /\ unchanged)
            /\ (data.pin \in VALID_PINS /\ lower(data.mode) \notin {"input", "output"})
                => (r.resp.status = 400 /\ unchanged)

\* A configure with a mode outside the vocabulary has been rejected for a pin
\* that is configured.
C8_RejectedOnConfigured ==
    /\ request.op = "mode"
    /\ response = Resp(400, "invalid_mode")
    /\ request.pin \in DOMAIN pin_states

\* The duty cycle is a number from 0 to 100.
DutyInRange(d) == ~d.nan /\ d.val >= 0 /\ d.val <= 100

\* C9: the duty cycle stored for every active PWM is within 0 .. 100.
C9_StoredDutyInRange ==
    \A p \in DOMAIN pwm_devices : DutyInRange(pwm_devices[p].duty_cycle)

\* The write requests C10 is about, on every pin of the model.
WriteInputs ==
    [op : {"write"}, pin : ReqPins, action : {"high", "LOW"}]
    \cup [op : {"write"}, pin : ReqPins, action : {"pulse"}, loops : 0 .. MaxLoops]

\* C10: a write of high, low or pulse to a pin that has no PinState or whose
\* mode is not output is answered 400, sets no level and changes no PinState;
\* an accepted high (low) makes the pin's value 1 (0) and changes nothing
\* else.
C10_WriteNeedsOutput ==
    \A data \in WriteInputs :
    \A env \in WriteEnvs(data) :
        LET r == write_pin(pin_states, pwm_devices, input_monitors, backend, data, env)
            pin == data.pin
            action == lower(data.action)
        IN  /\ (pin \notin DOMAIN pin_states \/ pin_states[pin].mode # "output")
                => /\ r.resp.status = 400
                   /\ r.calls = <<>>
                   /\ r.ps = pin_states
            /\ (r.resp.status = 200 /\ action \in {"high", "low"})
                => /\ r.ps[pin].value = (IF action = "high" THEN 1 ELSE 0)
                   /\ r.ps = [pin_states EXCEPT ![pin].value = r.ps[pin].value]
                   /\ r.pd = pwm_devices
                   /\ r.mon = input_monitors

\* A write has been rejected for a pin that runs PWM and has no PinState.
C10_RejectedOnPwmPin ==
    /\ request.op = "write"
    /\ response = Resp(400, "not_output")
    /\ request.pin \in DOMAIN pwm_devices
    /\ request.pin \notin DOMAIN pin_states

\* The pulse requests C11 is about: every pin of the model, cycle counts from
\* 0 to one more than the requests of Write carry.
PulseInputs ==
    [op : {"write"}, pin : TestPins, action : {"pulse"}, loops : 0 .. MaxLoops + 1]

\* C11: a pulse of n cycles on an output pin, no library call failing, is
\* answered 200, leaves the pin's recorded value 0 and makes exactly 2n level
\* calls on the pin, high and low in turn starting with high: n high, n low.
C11_PulseCounts ==
    \A data \in PulseInputs :
        (data.pin \in DOMAIN pin_states /\ pin_states[data.pin].mode = "output")
        => LET r == write_pin(pin_states, pwm_devices, input_monitors, backend,
                              data, NoFault)
           IN  /\ r.resp = Resp(200, "success")
               /\ r.ps = [pin_states EXCEPT ![data.pin].value = 0]
               /\ Len(r.calls) = 2 * data.loops
               /\ \A i \in DOMAIN r.calls :
                     r.calls[i] = Call(IF i % 2 = 1 THEN "high" ELSE "low", data.pin)

\* A pulse of one cycle has completed on pin 18: driven high, then low.
C11_PulsedOnce ==
    /\ request = [op |-> "write", pin |-> 18]
    /\ published = <<Event("info", "pulsed", 18)>>
    /\ driver_calls = <<Call("high", 18), Call("low", 18)>>
    /\ pin_states[18].value = 0

\* C12: after a write that completed (a pulse of any cycle count included),
\* the pin's recorded value is the level last driven on the pin.
C12_ValueIsLevelDriven ==
    (request.op = "write" /\ response.status = 200
        /\ request.pin \in DOMAIN drv_level /\ request.pin \in DOMAIN pin_states)
    => pin_states[request.pin].value = drv_level[request.pin]

\* C13: for every valid pin, stopping PWM on a pin that has no active PWM and
\* disabling the monitoring of a pin that is not in input_monitors are both
\* answered with success and leave pin_states, pwm_devices and input_monitors
\* as they were.
C13_NoOpsSucceed ==
    \A pin \in TestPins :
        /\ pin \notin DOMAIN pwm_devices
            => LET r == control_pwm(pin_states, pwm_devices, input_monitors, backend,
                                    [op |-> "pwm", pin |-> pin, action |-> "STOP",
                                     keys |-> {}], NoFault)
               IN  /\ r.resp.status = 200
                   /\ r.ps = pin_states
                   /\ r.pd = pwm_devices
                   /\ r.mon = input_monitors
        /\ pin \notin input_monitors
            => LET r == toggle_monitor(pin_states, pwm_devices, input_monitors, backend,
                                       [op |-> "monitor", pin |-> pin,
                                        enable |-> FALSE], NoFault)
               IN  /\ r.resp.status = 200
                   /\ r.ps = pin_states
                   /\ r.pd = pwm_devices
                   /\ r.mon = input_monitors

\* C14: a command (configure, write, pwm, monitor, reset) logs exactly one
\* event: of level info when it is answered with success, of level error when
\* it is rejected or fails.
C14_OneEventPerCommand ==
    request.op \in {"mode", "write", "pwm", "monitor", "reset"}
    => /\ Len(published) = 1
       /\ published[1].level = IF response.status = 200 THEN "info" ELSE "error"

\* C15: event_queue has a capacity (here: one below MaxBus) that the number
\* of records waiting in it never exceeds, however many are logged while no
\* subscriber takes any: at capacity log_event drops the record.
C15_QueueBounded ==
    \E capacity \in 1 .. MaxBus - 1 : Len(event_queue) <= capacity

\* a is the beginning of b.
IsPrefix(a, b) == Len(a) <= Len(b) /\ SubSeq(b, 1, Len(a)) = a

\* C16: what each subscriber has been sent is the records logged since the
\* subscribers connected, each once and in the order of their creation, up to
\* the point the subscriber has got to: a record one subscriber took is not
\* kept from another.
C16_EachSubscriberGetsAll ==
    \A s \in Subscribers : IsPrefix(feeds[s], created)

\* The registries left by the request d1 run alone and then d2 run alone,
\* from the registries of `from`.
Serial(from, d1, d2) ==
    The({The({[ps |-> b.ps, pd |-> b.pd] :
              b \in {Alone(a.ps, a.pd, input_monitors, backend, d2)}}) :
         a \in {Alone(from.ps, from.pd, input_monitors, backend, d1)}})

\* C17: once two concurrent command handlers have both returned, the
\* registries are what running the two commands one after the other, in one
\* of the two orders, leaves; in particular the pin of a configure and a PWM
\* start has not both a PinState and a PwmState.
C17_Serializable ==
    (\A t \in Threads : threads[t].pc = "done" /\ threads[t].data.op \in {"mode", "pwm"})
    => /\ [ps |-> pin_states, pd |-> pwm_devices]
             \in {Serial(began, threads["thread1"].data, threads["thread2"].data),
                  Serial(began, threads["thread2"].data, threads["thread1"].data)}
       /\ DOMAIN pin_states \cap DOMAIN pwm_devices = {}

\* The PinStates of pin 18 between which the configure of thread1 moves it:
\* the one it had when the requests arrived and, when the request is a valid
\* one, the one the configure stores.
OldAndNew ==
    {began.ps[18]}
    \cup {NewPinState(backend, lower(d.mode), lower(d.pull)) :
            d \in {x \in {threads["thread1"].data} :
                     lower(x.mode) \in {"input", "output"}}}

\* C18: a snapshot taken while a configured pin is being configured again
\* reports the pin with its whole old PinState or its whole new PinState,
\* never as unconfigured.
C18_SnapshotSeesOldOrNew ==
    \A t \in Threads :
       (/\ threads[t].pc = "done"
        /\ threads[t].data.op = "pins"
        /\ threads[t].resp.status = 200
        /\ 18 \in DOMAIN began.ps)
       => /\ threads[t].pins[18].configured
          /\ \E state \in OldAndNew :
             \E value \in IF state.mode = "input" THEN {0, 1} ELSE {state.value} :
                [threads[t].pins[18] EXCEPT !.pwm = {}] = Configured(state, value)

\* C19: a command closes no handle twice (a pin has one handle of a kind at
\* a time, so two close calls of one kind on one pin within a command are
\* calls on the same handle).
C19_ClosedOnce ==
    \A i, j \in DOMAIN driver_calls :
       (i # j /\ driver_calls[i].call \in {"close", "pwm_close"})
       => driver_calls[i] # driver_calls[j]

\* C20: whatever releases fail during it, a reset reports success and leaves
\* no PinState and no PwmState, those of the pins whose release failed
\* included.
C20_ResetTotal ==
    request.op = "reset"
    => /\ response.status = 200
       /\ pin_states = EmptyDict
       /\ pwm_devices = EmptyDict

\* The configures of a pin as output, with each pull a request may carry.
OutputConfigures ==
    [op : {"mode"}, pin : TestPins, mode : {"OUTPUT"}, pull : {"UP", "down", "off"}]

\* C21: on every backend every PinState of mode output has pull off, and a
\* configure as output that succeeds records pull off whatever pull the
\* request carried.
C21_OutputPullOff ==
    /\ \A p \in DOMAIN pin_states :
          pin_states[p].mode = "output" => pin_states[p].pull = "off"
    /\ \A data \in OutputConfigures :
       \A env \in ModeEnvs(data) :
       \A r \in {set_pin_mode(pin_states, pwm_devices, input_monitors, backend, data, env)} :
          r.resp.status = 200
          => (r.ps[data.pin].mode = "output" /\ r.ps[data.pin].pull = "off")

\* A configure as output, which in the model carries pull UP, has succeeded.
C21_OutputConfigured ==
    /\ request.op = "mode"
    /\ response.status = 200
    /\ request.pin \in DOMAIN pin_states
    /\ pin_states[request.pin].mode = "output"

====
